---- MODULE Spec2Model ----
(***************************************************************************)
(* A model of metar.py: the decoder of METAR/SPECI weather reports.        *)
(*                                                                         *)
(* Text is a sequence of one-character strings.  Every regular expression  *)
(* of the source is transcribed as a syntax tree and run by one            *)
(* backtracking matcher (Run) that yields the matches in the priority      *)
(* order of Python's re module, so that the first one is re.match's.       *)
(* Optional values (None in the source) are <<>>; a present value x is     *)
(* <<x>>.                                                                  *)
(***************************************************************************)
EXTENDS Integers, Sequences, FiniteSets, TLC

VARIABLES raw, code, pc, idx, self, ctx, err, hist, out

vars == <<raw, code, pc, idx, self, ctx, err, hist, out>>

None == <<>>

Some(x) == <<x>>

(* Python truthiness of a value that is None or a string. *)
Truthy(o) == o # None /\ o[1] # <<>>

-----------------------------------------------------------------------------
(* Characters *)

Digit == {"0","1","2","3","4","5","6","7","8","9"}

Upper == {"A","B","C","D","E","F","G","H","I","J","K","L","M",
          "N","O","P","Q","R","S","T","U","V","W","X","Y","Z"}

(* \s of a str pattern and the characters str.lstrip()/str.split() strip:  *)
(* space, \t, \n, \r, \f (and \v, which has no escape here).               *)
WS == {" ", "\t", "\n", "\r", "\f"}

DigitVal(c) ==
  CASE c = "0" -> 0 [] c = "1" -> 1 [] c = "2" -> 2 [] c = "3" -> 3
    [] c = "4" -> 4 [] c = "5" -> 5 [] c = "6" -> 6 [] c = "7" -> 7
    [] c = "8" -> 8 [] c = "9" -> 9

(* int(s) for a string of decimal digits *)
RECURSIVE ToInt(_)
ToInt(s) ==
  IF s = <<>> THEN 0
  ELSE 10 * ToInt(SubSeq(s, 1, Len(s) - 1)) + DigitVal(s[Len(s)])

StartsWith(s, w) == Len(s) >= Len(w) /\ SubSeq(s, 1, Len(w)) = w

EndsWith(s, w) == Len(s) >= Len(w) /\ SubSeq(s, Len(s) - Len(w) + 1, Len(s)) = w

Drop(s, n) == SubSeq(s, n + 1, Len(s))

(* str.lstrip() *)
RECURSIVE LStrip(_)
LStrip(s) == IF s # <<>> /\ s[1] \in WS THEN LStrip(Tail(s)) ELSE s

-----------------------------------------------------------------------------
(* Regular expressions: syntax trees *)

Lit(w) == [t |-> "lit", w |-> w]

(* w1|w2|...: literal alternatives, tried in order *)
Words(ws) == [t |-> "words", ws |-> ws]

Set(cs) == [t |-> "set", cs |-> cs]

(* \S *)
NotSet(cs) == [t |-> "nset", cs |-> cs]

Cat(rs) == [t |-> "cat", rs |-> rs]

Alt(rs) == [t |-> "alt", rs |-> rs]

Opt(r) == [t |-> "opt", r |-> r]

Star(r) == [t |-> "star", r |-> r]

Plus(r) == [t |-> "cat", rs |-> <<r, [t |-> "star", r |-> r]>>]

(* (?P<name>r) *)
Grp(name, r) == [t |-> "grp", name |-> name, r |-> r]

D == Set(Digit)

SP == Plus(Set(WS))

RECURSIVE Names(_)
RECURSIVE NamesAll(_)
Names(re) ==
  CASE re.t = "grp" -> {re.name} \cup Names(re.r)
    [] re.t \in {"cat", "alt"} -> NamesAll(re.rs)
    [] re.t \in {"opt", "star"} -> Names(re.r)
    [] OTHER -> {}

NamesAll(rs) == IF rs = <<>> THEN {} ELSE Names(Head(rs)) \cup NamesAll(Tail(rs))

(* The matcher.  A match state is [pos, caps]: the next position and the   *)
(* named groups captured so far.  Run yields every way re can match at     *)
(* st.pos, in the order in which a backtracking matcher tries them         *)
(* (greedy repetition, alternatives left to right).                        *)
RECURSIVE Run(_, _, _)
RECURSIVE RunAll(_, _, _)
RECURSIVE RunCat(_, _, _)
RECURSIVE RunAlt(_, _, _)
RECURSIVE RunWords(_, _, _)
Run(re, s, st) ==
  CASE re.t = "lit" ->
         IF StartsWith(Drop(s, st.pos - 1), re.w)
         THEN <<[st EXCEPT !.pos = @ + Len(re.w)]>> ELSE <<>>
    [] re.t = "words" -> RunWords(re.ws, s, st)
    [] re.t = "set" ->
         IF st.pos <= Len(s) /\ s[st.pos] \in re.cs
         THEN <<[st EXCEPT !.pos = @ + 1]>> ELSE <<>>
    [] re.t = "nset" ->
         IF st.pos <= Len(s) /\ s[st.pos] \notin re.cs
         THEN <<[st EXCEPT !.pos = @ + 1]>> ELSE <<>>
    [] re.t = "cat" -> RunCat(re.rs, s, <<st>>)
    [] re.t = "alt" -> RunAlt(re.rs, s, st)
    [] re.t = "opt" -> Run(re.r, s, st) \o <<st>>
    [] re.t = "star" ->
         RunAll(re, s, SelectSeq(Run(re.r, s, st), LAMBDA x : x.pos > st.pos))
           \o <<st>>
    [] re.t = "grp" ->
         LET xs == Run(re.r, s, st)
         IN  [i \in 1..Len(xs) |->
                [xs[i] EXCEPT !.caps[re.name] =
                                 Some(SubSeq(s, st.pos, xs[i].pos - 1))]]

RunAll(re, s, sts) ==
  IF sts = <<>> THEN <<>> ELSE Run(re, s, Head(sts)) \o RunAll(re, s, Tail(sts))

RunCat(rs, s, sts) ==
  IF rs = <<>> \/ sts = <<>> THEN sts
  ELSE RunCat(Tail(rs), s, RunAll(Head(rs), s, sts))

RunAlt(rs, s, st) ==
  IF rs = <<>> THEN <<>> ELSE Run(Head(rs), s, st) \o RunAlt(Tail(rs), s, st)

RunWords(ws, s, st) ==
  IF ws = <<>> THEN <<>>
  ELSE (IF StartsWith(Drop(s, st.pos - 1), Head(ws))
        THEN <<[st EXCEPT !.pos = @ + Len(Head(ws))]>> ELSE <<>>)
       \o RunWords(Tail(ws), s, st)

(* pattern.match(s): None, or the match as [text, d]: m.group() and        *)
(* m.groupdict().                                                          *)
Match(re, s) ==
  LET xs == Run(re, s, [pos |-> 1, caps |-> [n \in Names(re) |-> None]])
  IN  IF xs = <<>> THEN None
      ELSE Some([text |-> SubSeq(s, 1, xs[1].pos - 1), d |-> xs[1].caps])

(* pattern.sub("", s) and pattern.sub("", s, 1) after pattern.match(s)     *)
(* gave m: every pattern but UNPARSED_RE and TS_LOC_RE starts with ^, so   *)
(* the only occurrence is the one at the start; for those two the leftmost *)
(* occurrence is the one at the start, and count is 1.                     *)
Sub(m, s) == Drop(s, Len(m.text))

-----------------------------------------------------------------------------
(* Regular expressions to decode the groups of the body *)

TYPE_RE == Cat(<<Grp("type", Words(<<<<"M","E","T","A","R">>, <<"S","P","E","C","I">>>>)), SP>>)

UpperDigit == Upper \cup Digit

STATION_RE ==
  Cat(<<Grp("station", Cat(<<Set(Upper), Set(UpperDigit), Set(UpperDigit),
                             Set(UpperDigit)>>)), SP>>)

TIME_RE ==
  Cat(<<Grp("day", Cat(<<D, D>>)), Grp("hour", Cat(<<D, D>>)),
        Grp("min", Cat(<<D, D>>)), Lit(<<"Z">>), SP>>)

MODIFIER_RE ==
  Cat(<<Grp("mod", Words(<<<<"A","U","T","O">>, <<"C","O","R">>, <<"R","T","D">>, <<"C","C","A">>>>)), SP>>)

SpeedRe == Cat(<<Opt(Lit(<<"P">>)), D, D, Opt(D)>>)

WIND_RE ==
  Cat(<<Grp("dir", Alt(<<Cat(<<D, D, D>>), Lit(<<"/","/","/">>), Lit(<<"V","R","B">>)>>)),
        Grp("speed", Alt(<<SpeedRe, Lit(<<"/","/">>)>>)),
        Opt(Cat(<<Lit(<<"G">>), Grp("gust", SpeedRe)>>)),
        Grp("unit", Words(<<<<"K","T">>, <<"K","M","H">>, <<"M","P","S">>>>)),
        Opt(Cat(<<SP, Grp("varfrom", Cat(<<D, D, D>>)), Lit(<<"V">>),
                  Grp("varto", Cat(<<D, D, D>>))>>)),
        SP>>)

CompassRe == Cat(<<Set({"N","S","E","W"}), Opt(Set({"E","W"}))>>)

VISIBILITY_RE ==
  Cat(<<Grp("vis",
            Alt(<<Cat(<<Opt(Lit(<<"M">>)), Plus(D), Words(<<<<"S","M">>, <<"K","M">>>>)>>),
                  Cat(<<Opt(Lit(<<"M">>)), Opt(Cat(<<D, SP>>)), D, Lit(<<"/">>), D,
                        Opt(D), Lit(<<"S","M">>)>>),
                  Cat(<<D, D, D, D, Opt(Grp("dir", CompassRe))>>),
                  Lit(<<"C","A","V","O","K">>)>>)),
        SP>>)

RangeRe == Cat(<<Opt(Words(<<<<"M">>, <<"P">>>>)), D, D, D, D>>)

RUNWAY_RE ==
  Cat(<<Lit(<<"R">>),
        Grp("name", Cat(<<D, D, Opt(Alt(<<Cat(<<Lit(<<"R">>), Opt(Lit(<<"R">>))>>),
                                         Cat(<<Lit(<<"L">>), Opt(Lit(<<"L">>))>>),
                                         Lit(<<"C">>)>>))>>)),
        Lit(<<"/">>),
        Grp("low", RangeRe),
        Opt(Cat(<<Lit(<<"V">>), Grp("high", RangeRe)>>)),
        Opt(Grp("unit", Lit(<<"F","T">>))),
        Star(Set({"/","N","D","U"})),
        SP>>)

DescWords == <<<<"M","I">>, <<"P","R">>, <<"B","C">>, <<"D","R">>, <<"B","L">>, <<"S","H">>, <<"T","S">>, <<"F","Z">>>>

PrecWords == <<<<"D","Z">>, <<"R","A">>, <<"S","N">>, <<"S","G">>, <<"I","C">>, <<"P","L">>, <<"G","R">>, <<"G","S">>, <<"U","P">>>>

ObscWords == <<<<"B","R">>, <<"F","G">>, <<"F","U">>, <<"V","A">>, <<"D","U">>, <<"S","A">>, <<"H","Z">>, <<"P","Y">>>>

OtherWords == <<<<"P","O">>, <<"S","Q">>, <<"F","C">>, <<"S","S">>, <<"D","S">>>>

(* WEATHER_RE ending with \s* in place of \s+ *)
WEATHER_RE_OptionalSpace ==
  Cat(<<Grp("int", Star(Words(<<<<"-">>, <<"+">>, <<"V","C">>>>))),
        Opt(Grp("desc", Words(DescWords))),
        Grp("prec", Star(Words(PrecWords \o <<<<"/","/">>>>))),
        Opt(Grp("obsc", Words(ObscWords))),
        Opt(Grp("other", Words(OtherWords \o <<<<"N","S","W">>>>))),
        Star(Set(WS))>>)

WEATHER_RE ==
  Cat(<<Grp("int", Star(Words(<<<<"-">>, <<"+">>, <<"V","C">>>>))),
        Opt(Grp("desc", Words(DescWords))),
        Grp("prec", Star(Words(PrecWords \o <<<<"/","/">>>>))),
        Opt(Grp("obsc", Words(ObscWords))),
        Opt(Grp("other", Words(OtherWords \o <<<<"N","S","W">>>>))),
        SP>>)

SKY_RE ==
  Cat(<<Grp("cover", Words(<<<<"V","V">>, <<"C","L","R">>, <<"S","K","C">>, <<"N","S","C">>, <<"B","K","N">>, <<"S","C","T">>,
                             <<"F","E","W">>, <<"O","V","C">>>>)),
        Opt(Grp("height", Alt(<<Cat(<<D, D, D>>), Lit(<<"/","/","/">>)>>))),
        Opt(Grp("cloud", Cat(<<Set(Upper), Plus(Set(Upper))>>))),
        SP>>)

TempRe == Alt(<<Cat(<<Opt(Lit(<<"M">>)), Plus(D)>>), Lit(<<"/","/">>)>>)

TEMP_RE ==
  Cat(<<Grp("temp", TempRe), Lit(<<"/">>), Opt(Grp("dewpt", TempRe)), SP>>)

PRESS_RE ==
  Cat(<<Grp("unit", Words(<<<<"A">>, <<"Q">>>>)),
        Grp("press", Alt(<<Cat(<<D, D, D, D>>), Lit(<<"/","/","/","/">>)>>)),
        SP>>)

RECENT_RE ==
  Cat(<<Lit(<<"R","E">>),
        Opt(Grp("desc", Words(DescWords))),
        Opt(Grp("prec", Star(Words(PrecWords)))),
        Opt(Grp("obsc", Words(ObscWords))),
        Opt(Grp("other", Words(OtherWords))),
        SP>>)

WINDSHEAR_RE ==
  Cat(<<Opt(Cat(<<Lit(<<"W","S">>), SP>>)),
        Alt(<<Cat(<<Lit(<<"A","L","L">>), SP, Lit(<<"R","W","Y">>)>>),
              Cat(<<Lit(<<"R","W","Y">>),
                    Grp("name",
                        Cat(<<D, D,
                              Opt(Alt(<<Cat(<<Lit(<<"R">>), Opt(Lit(<<"R">>))>>),
                                        Opt(Lit(<<"L">>)),
                                        Lit(<<"C">>)>>))>>))>>)>>),
        SP>>)

ColorRe ==
  Cat(<<Opt(Lit(<<"B","L","A","C","K">>)), Words(<<<<"B","L","U">>, <<"G","R","N">>, <<"W","H","T">>, <<"R","E","D">>>>),
        Opt(Lit(<<"+">>))>>)

COLOR_RE ==
  Cat(<<ColorRe, Star(Cat(<<Opt(Lit(<<"/">>)), ColorRe>>)), Star(Set(WS))>>)

TREND_RE ==
  Cat(<<Grp("trend", Words(<<<<"T","E","M","P","O">>, <<"B","E","C","M","G">>, <<"F","C","S","T">>, <<"N","O","S","I","G">>>>)), SP>>)

-----------------------------------------------------------------------------
(* Regular expressions for the remark groups *)

AUTO_RE == Cat(<<Lit(<<"A","O">>), Grp("type", D), SP>>)

SEALVL_PRESS_RE == Cat(<<Lit(<<"S","L","P">>), Grp("press", Cat(<<D, D, D>>)), SP>>)

PEAK_WIND_RE ==
  Cat(<<Lit(<<"P","K">>), SP, Lit(<<"W","N","D">>), SP,
        Grp("dir", Cat(<<D, D, D>>)),
        Grp("speed", SpeedRe), Lit(<<"/">>),
        Opt(Grp("hour", Cat(<<D, D>>))),
        Grp("min", Cat(<<D, D>>)), SP>>)

WIND_SHIFT_RE ==
  Cat(<<Lit(<<"W","S","H","F","T">>), SP,
        Opt(Grp("hour", Cat(<<D, D>>))),
        Grp("min", Cat(<<D, D>>)),
        Opt(Cat(<<SP, Grp("front", Lit(<<"F","R","O","P","A">>))>>)), SP>>)

PRECIP_1HR_RE == Cat(<<Lit(<<"P">>), Grp("precip", Cat(<<D, D, D, D>>)), SP>>)

PRECIP_24HR_RE ==
  Cat(<<Grp("type", Words(<<<<"6">>, <<"7">>>>)), Grp("precip", Cat(<<D, D, D, D>>)),
        SP>>)

PRESS_3HR_RE ==
  Cat(<<Lit(<<"5">>), Grp("tend", Set(Digit \ {"9"})),
        Grp("press", Cat(<<D, D, D>>)), SP>>)

SignRe == Words(<<<<"0">>, <<"1">>>>)

TEMP_1HR_RE ==
  Cat(<<Lit(<<"T">>), Grp("tsign", SignRe), Grp("temp", Cat(<<D, D, D>>)),
        Opt(Cat(<<Grp("dsign", SignRe), Grp("dewpt", Cat(<<D, D, D>>))>>)),
        SP>>)

TEMP_6HR_RE ==
  Cat(<<Grp("type", Words(<<<<"1">>, <<"2">>>>)), Grp("sign", SignRe),
        Grp("temp", Cat(<<D, D, D>>)), SP>>)

TEMP_24HR_RE ==
  Cat(<<Lit(<<"4">>), Grp("smaxt", SignRe), Grp("maxt", Cat(<<D, D, D>>)),
        Grp("smint", SignRe), Grp("mint", Cat(<<D, D, D>>)), SP>>)

UNPARSED_RE == Cat(<<Grp("group", Plus(NotSet(WS))), SP>>)

LocRe ==
  Plus(Alt(<<Lit(<<"O","H","D">>), Lit(<<"V","C">>), Cat(<<Lit(<<"D","S","N","T">>), SP>>),
             Cat(<<SP, Lit(<<"A","N","D">>), SP>>),
             Cat(<<CompassRe, Star(Cat(<<Lit(<<"-">>), CompassRe>>))>>)>>))

LIGHTNING_RE ==
  Cat(<<Opt(Cat(<<Grp("freq", Words(<<<<"O","C","N","L">>, <<"F","R","Q">>, <<"C","O","N","S">>>>)), SP>>)),
        Lit(<<"L","T","G">>),
        Grp("type", Star(Words(<<<<"I","C">>, <<"C","C">>, <<"C","G">>, <<"C","A">>>>))),
        Opt(Cat(<<SP, Grp("loc", LocRe)>>)), SP>>)

TS_LOC_RE ==
  Cat(<<Lit(<<"T","S">>),
        Opt(Cat(<<SP, Grp("loc", LocRe)>>)),
        Opt(Cat(<<SP, Lit(<<"M","O","V">>), SP, Grp("dir", CompassRe)>>)), SP>>)

-----------------------------------------------------------------------------
(* Values of the wxdatatypes library: the constructor's arguments, kept.   *)
(* An object of these classes is true in a condition.                      *)

direction(d) == [dir |-> d]

speed(value, units, gtlt) == [value |-> value, units |-> units, gtlt |-> gtlt]

distance(value, units, gtlt) == [value |-> value, units |-> units, gtlt |-> gtlt]

pressure(value, units) == [value |-> value, units |-> units]

(* temperature(t) of a code M?\d+ (whole degrees, M for minus), in tenths  *)
(* of a degree                                                             *)
TempOfCode(t) ==
  IF t[1] = "M" THEN 0 - 10 * ToInt(Tail(t)) ELSE 10 * ToInt(t)

(* float(t)/10.0, negated when the sign digit is "1", in tenths *)
TempOfRemark(sign, t) == IF sign = <<"1">> THEN 0 - ToInt(t) ELSE ToInt(t)

-----------------------------------------------------------------------------
(* The report under construction *)

InitSelf ==
  [ type |-> None, mod |-> Some(<<"A","U","T","O">>), station_id |-> None,
    time |-> None, cycle |-> None,
    _day |-> None, _hour |-> None, _min |-> None,
    wind_dir |-> None, wind_speed |-> None, wind_gust |-> None,
    wind_dir_from |-> None, wind_dir_to |-> None,
    vis |-> None, vis_dir |-> None, max_vis |-> None, max_vis_dir |-> None,
    temp |-> None, dewpt |-> None, press |-> None,
    runway |-> <<>>, weather |-> <<>>, recent |-> <<>>, sky |-> <<>>,
    windshear |-> <<>>, _remarks |-> <<>>, _unparsed |-> <<>> ]

(* What one call of a parser returns and does: (code, match), the report   *)
(* after it, the attributes it assigned, and the exception it raised.      *)
Ret(s, c, match, set) ==
  [self |-> s, code |-> c, match |-> match, set |-> set, exc |-> None]

Raise(s, c, e) ==
  [self |-> s, code |-> c, match |-> None, set |-> {}, exc |-> Some(e)]

-----------------------------------------------------------------------------
(* The parsers of the body groups.  Each is given the report s and the     *)
(* remaining text c (and, for the time group, the month and year).         *)

_parseType(s, c) ==
  LET m == Match(TYPE_RE, c)
  IN  IF m = None THEN Ret(s, c, None, {})
      ELSE Ret([s EXCEPT !.type = m[1].d["type"]], Sub(m[1], c),
               Some(m[1].text), {"type"})

_parseStation(s, c) ==
  LET m == Match(STATION_RE, c)
  IN  IF m = None THEN Ret(s, c, None, {})
      ELSE Ret([s EXCEPT !.station_id = m[1].d["station"]], Sub(m[1], c),
               Some(m[1].text), {"station_id"})

_parseModifier(s, c) ==
  LET m == Match(MODIFIER_RE, c)
  IN  IF m = None THEN Ret(s, c, None, {})
      ELSE Ret([s EXCEPT !.mod = m[1].d["mod"]], Sub(m[1], c),
               Some(m[1].text), {"mod"})

IsLeap(y) == (y % 4 = 0 /\ y % 100 # 0) \/ y % 400 = 0

DaysInMonth(y, mo) ==
  IF mo = 2 THEN (IF IsLeap(y) THEN 29 ELSE 28)
  ELSE IF mo \in {4, 6, 9, 11} THEN 30 ELSE 31

(* datetime.datetime(year, month, day, hour, minute) does not raise *)
ValidDate(y, mo, d, h, mi) ==
  /\ y \in 1..9999 /\ mo \in 1..12
  /\ d >= 1 /\ d <= DaysInMonth(y, mo)
  /\ h \in 0..23 /\ mi \in 0..59

(* CycleOf keeping the cycle within 0..23 *)
CycleOf_Wrapped(hour, min) == IF min < 45 THEN hour ELSE (hour + 1) % 24

CycleOf(hour, min) == IF min < 45 THEN hour ELSE hour + 1

_parseTime(s, c, cx) ==
  LET m == Match(TIME_RE, c)
  IN  IF m = None THEN Ret(s, c, None, {})
      ELSE
        LET d == m[1].d
            day == ToInt(d["day"][1])
            hour == ToInt(d["hour"][1])
            min == ToInt(d["min"][1])
            s1 == [s EXCEPT !._day = Some(day), !._hour = Some(hour),
                            !._min = Some(min)]
        IN  IF ~ValidDate(cx.year, cx.month, day, hour, min)
            THEN Raise(s1, c, "ValueError")
            ELSE Ret([s1 EXCEPT
                        !.time = Some([year |-> cx.year, month |-> cx.month,
                                       day |-> day, hour |-> hour,
                                       minute |-> min]),
                        !.cycle = Some(CycleOf(hour, min))],
                     Sub(m[1], c), Some(m[1].text), {"time", "cycle"})

_parseWind(s, c) ==
  LET m == Match(WIND_RE, c)
  IN  IF m = None THEN Ret(s, c, None, {})
      ELSE
        LET d == m[1].d
            wind_dir == d["dir"][1]
            wind_speed == d["speed"][1]
            unit == d["unit"][1]
            hasDir == wind_dir # <<"V","R","B">> /\ wind_dir # <<"/","/","/">>
            hasSpeed == wind_speed # <<"/","/">>
            s1 == IF hasDir THEN [s EXCEPT !.wind_dir = Some(direction(wind_dir))]
                  ELSE s
            s2 == IF StartsWith(wind_speed, <<"P">>)
                  THEN [s1 EXCEPT !.wind_speed =
                                     Some(speed(Tail(wind_speed), unit, Some(">")))]
                  ELSE IF hasSpeed
                  THEN [s1 EXCEPT !.wind_speed = Some(speed(wind_speed, unit, None))]
                  ELSE s1
            s3 == IF Truthy(d["gust"])
                  THEN (IF StartsWith(d["gust"][1], <<"P">>)
                        THEN [s2 EXCEPT !.wind_gust =
                                Some(speed(Tail(d["gust"][1]), unit, Some(">")))]
                        ELSE [s2 EXCEPT !.wind_gust =
                                Some(speed(d["gust"][1], unit, None))])
                  ELSE s2
            s4 == IF Truthy(d["varfrom"])
                  THEN [s3 EXCEPT !.wind_dir_from = Some(direction(d["varfrom"][1])),
                                  !.wind_dir_to = Some(direction(d["varto"][1]))]
                  ELSE s3
        IN  Ret(s4, Sub(m[1], c), Some(m[1].text),
                (IF hasDir THEN {"wind_dir"} ELSE {})
                  \cup (IF hasSpeed THEN {"wind_speed"} ELSE {})
                  \cup (IF Truthy(d["gust"]) THEN {"wind_gust"} ELSE {})
                  \cup (IF Truthy(d["varfrom"])
                        THEN {"wind_dir_from", "wind_dir_to"} ELSE {}))

(* The distance and the direction a visibility group codes: what          *)
(* _parseVisibility computes before it stores them.                        *)
VisDistance(d) ==
  LET vis0 == d["vis"][1]
      vis == IF Truthy(d["dir"]) THEN SubSeq(vis0, 1, 4) ELSE vis0
  IN  IF EndsWith(vis, <<"S","M">>)
      THEN distance(SubSeq(vis, 1, Len(vis) - 2), "SM", None)
      ELSE IF EndsWith(vis, <<"K","M">>)
      THEN distance(SubSeq(vis, 1, Len(vis) - 2), "KM", None)
      ELSE IF vis = <<"C","A","V","O","K">> \/ vis = <<"9","9","9","9">>
      THEN distance(<<"1","0","0","0","0">>, "M", Some(">"))
      ELSE distance(vis, "M", None)

VisDirection(d) ==
  IF Truthy(d["dir"]) THEN Some(direction(d["dir"][1])) ELSE None

(* StoreVisibility without the test of self.vis *)
StoreVisibility_Overwrite(s, dist, dir) ==
  [s EXCEPT !.vis = Some(dist), !.vis_dir = IF dir # None THEN dir ELSE @]

(* "if self.vis: ... else: ..." *)
StoreVisibility(s, dist, dir) ==
  IF s.vis # None
  THEN [s EXCEPT !.max_vis = Some(dist),
                 !.max_vis_dir = IF dir # None THEN dir ELSE @]
  ELSE [s EXCEPT !.vis = Some(dist),
                 !.vis_dir = IF dir # None THEN dir ELSE @]

_parseVisibility(s, c) ==
  LET m == Match(VISIBILITY_RE, c)
  IN  IF m = None THEN Ret(s, c, None, {})
      ELSE
        LET dir == VisDirection(m[1].d)
        IN  Ret(StoreVisibility(s, VisDistance(m[1].d), dir),
                Sub(m[1], c), Some(m[1].text),
                (IF s.vis # None THEN {"max_vis"} ELSE {"vis"})
                  \cup (IF dir = None THEN {}
                        ELSE IF s.vis # None THEN {"max_vis_dir"}
                        ELSE {"vis_dir"}))

_parseRunway(s, c) ==
  LET m == Match(RUNWAY_RE, c)
  IN  IF m = None THEN Ret(s, c, None, {})
      ELSE
        LET d == m[1].d
            low == distance(d["low"][1], None, None)
            high == IF Truthy(d["high"]) THEN distance(d["high"][1], None, None)
                    ELSE low
        IN  Ret([s EXCEPT !.runway = Append(@, <<d["name"][1], low, high>>)],
                Sub(m[1], c), Some(m[1].text), {"runway"})

_parseWeather(s, c) ==
  LET m == Match(WEATHER_RE, c)
  IN  IF m = None THEN Ret(s, c, None, {})
      ELSE
        LET d == m[1].d
        IN  Ret([s EXCEPT !.weather =
                   Append(@, <<d["int"], d["desc"], d["prec"], d["obsc"],
                               d["other"]>>)],
                Sub(m[1], c), Some(m[1].text), {"weather"})

_parseSky(s, c) ==
  LET m == Match(SKY_RE, c)
  IN  IF m = None THEN Ret(s, c, None, {})
      ELSE
        LET d == m[1].d
            height == IF ~Truthy(d["height"]) \/ d["height"][1] = <<"/","/","/">>
                      THEN None
                      ELSE Some(distance(ToInt(d["height"][1]) * 100, "FT", None))
        IN  Ret([s EXCEPT !.sky = Append(@, <<d["cover"][1], height, d["cloud"]>>)],
                Sub(m[1], c), Some(m[1].text), {"sky"})

_parseTemp(s, c) ==
  LET m == Match(TEMP_RE, c)
  IN  IF m = None THEN Ret(s, c, None, {})
      ELSE
        LET d == m[1].d
            hasTemp == d["temp"][1] # <<"/","/">>
            hasDewpt == Truthy(d["dewpt"]) /\ d["dewpt"][1] # <<"/","/">>
            s1 == IF hasTemp THEN [s EXCEPT !.temp = Some(TempOfCode(d["temp"][1]))]
                  ELSE s
            s2 == IF hasDewpt
                  THEN [s1 EXCEPT !.dewpt = Some(TempOfCode(d["dewpt"][1]))]
                  ELSE s1
        IN  Ret(s2, Sub(m[1], c), Some(m[1].text),
                (IF hasTemp THEN {"temp"} ELSE {})
                  \cup (IF hasDewpt THEN {"dewpt"} ELSE {}))

_parsePressure(s, c) ==
  LET m == Match(PRESS_RE, c)
  IN  IF m = None THEN Ret(s, c, None, {})
      ELSE
        LET d == m[1].d
            coded == d["press"][1] # <<"/","/","/","/">>
            s1 == IF ~coded THEN s
                  ELSE IF d["unit"][1] = <<"A">>
                  THEN [s EXCEPT !.press = Some(pressure(ToInt(d["press"][1]), "IN"))]
                  ELSE [s EXCEPT !.press = Some(pressure(d["press"][1], "MB"))]
        IN  Ret(s1, Sub(m[1], c), Some(m[1].text),
                IF coded THEN {"press"} ELSE {})

_parseRecent(s, c) ==
  LET m == Match(RECENT_RE, c)
  IN  IF m = None THEN Ret(s, c, None, {})
      ELSE
        LET d == m[1].d
        IN  Ret([s EXCEPT !.recent =
                   Append(@, <<Some(<<>>), d["desc"], d["prec"], d["obsc"],
                               d["other"]>>)],
                Sub(m[1], c), Some(m[1].text), {"recent"})

_parseWindShear(s, c) ==
  LET m == Match(WINDSHEAR_RE, c)
  IN  IF m = None THEN Ret(s, c, None, {})
      ELSE
        LET d == m[1].d
        IN  Ret([s EXCEPT !.windshear =
                   Append(@, IF Truthy(d["name"]) THEN d["name"][1] ELSE <<"A","L","L">>)],
                Sub(m[1], c), Some(m[1].text), {"windshear"})

_parseColor(s, c) ==
  LET m == Match(COLOR_RE, c)
  IN  IF m = None THEN Ret(s, c, None, {})
      ELSE Ret(s, Sub(m[1], c), Some(m[1].text), {})

(* code.split(None,1) of the trend loop: the text after the first token    *)
(* and the whitespace that follows it; <<>> when there is no such text     *)
(* (the unpacking then fails).                                             *)
RECURSIVE DropToken(_)
DropToken(c) == IF c # <<>> /\ c[1] \notin WS THEN DropToken(Tail(c)) ELSE c

SplitRest(c) == LStrip(DropToken(LStrip(c)))

(* _parseTrend up to its loop: the match and the removal of the group *)
_parseTrend(s, c) ==
  LET m == Match(TREND_RE, c)
  IN  IF m = None THEN Ret(s, c, None, {})
      ELSE Ret(s, Sub(m[1], c), m[1].d["trend"], {})

-----------------------------------------------------------------------------
(* The handlers of the remark groups.  Each is given the report s and the  *)
(* groupdict d of the match; a phrase appended to _remarks is kept as its  *)
(* format and its arguments.                                               *)

Done(s) == [self |-> s, exc |-> None]

Fail(s, e) == [self |-> s, exc |-> Some(e)]

Phrase(s, fmt, args) ==
  [s EXCEPT !._remarks = Append(@, [fmt |-> fmt, args |-> args])]

_parseSealvlPressRemark(s, d) ==
  LET v == ToInt(d["press"][1])
      value == IF v < 500 THEN v + 10000 ELSE v + 9000
  IN  Done(Phrase(s, "sea-level pressure %.1fhPa", <<value>>))

_parsePrecip24hrRemark(s, d) ==
  LET value == ToInt(d["precip"][1])
  IN  IF d["type"][1] = <<"6">>
      THEN (IF s.cycle \in {Some(3), Some(9), Some(15), Some(21)}
            THEN Done(Phrase(s, "3-hour precipitation %.2fin", <<value>>))
            ELSE Done(Phrase(s, "6-hr precip %.2fin", <<value>>)))
      ELSE Done(Phrase(s, "24-hr precip %.2fin", <<value>>))

_parsePrecip1hrRemark(s, d) ==
  Done(Phrase(s, "1-hr precip %.2fin", <<ToInt(d["precip"][1])>>))

(* _parseTemp1hrRemark leaving a temperature of the body as it is *)
_parseTemp1hrRemark_KeepBody(s, d) ==
  LET s1 == IF s.temp # None THEN s
            ELSE [s EXCEPT !.temp = Some(TempOfRemark(d["tsign"][1], d["temp"][1]))]
  IN  IF Truthy(d["dewpt"]) /\ s.dewpt = None
      THEN Done([s1 EXCEPT !.dewpt =
                   Some(TempOfRemark(d["dsign"][1], d["dewpt"][1]))])
      ELSE Done(s1)

_parseTemp1hrRemark(s, d) ==
  LET s1 == [s EXCEPT !.temp = Some(TempOfRemark(d["tsign"][1], d["temp"][1]))]
  IN  IF Truthy(d["dewpt"])
      THEN Done([s1 EXCEPT !.dewpt =
                   Some(TempOfRemark(d["dsign"][1], d["dewpt"][1]))])
      ELSE Done(s1)

_parseTemp6hrRemark(s, d) ==
  LET value == TempOfRemark(d["sign"][1], d["temp"][1])
  IN  IF d["type"][1] = <<"1">>
      THEN Done(Phrase(s, "6-hr max temp %.1fC", <<value>>))
      ELSE Done(Phrase(s, "6-hr min temp %.1fC", <<value>>))

_parseTemp24hrRemark(s, d) ==
  LET value == TempOfRemark(d["smaxt"][1], d["maxt"][1])
      value2 == TempOfRemark(d["smint"][1], d["mint"][1])
  IN  Done(Phrase(Phrase(s, "24-hr max temp %.1fC", <<value>>),
                  "24-hr min temp %.1fC", <<value2>>))

PRESSURE_TENDENCY ==
  [c \in {<<"0">>, <<"1">>, <<"2">>, <<"3">>, <<"4">>, <<"5">>, <<"6">>,
          <<"7">>, <<"8">>} |->
     CASE c = <<"0">> -> "increasing, then decreasing"
       [] c = <<"1">> -> "increasing more slowly"
       [] c = <<"2">> -> "increasing"
       [] c = <<"3">> -> "increasing more quickly"
       [] c = <<"4">> -> "steady"
       [] c = <<"5">> -> "decreasing, then increasing"
       [] c = <<"6">> -> "decreasing more slowly"
       [] c = <<"7">> -> "decreasing"
       [] c = <<"8">> -> "decreasing more quickly"]

_parsePress3hrRemark(s, d) ==
  IF d["tend"][1] \notin DOMAIN PRESSURE_TENDENCY THEN Fail(s, "KeyError")
  ELSE Done(Phrase(s, "3-hr pressure change %.1fhPa, %s",
                   <<ToInt(d["press"][1]), PRESSURE_TENDENCY[d["tend"][1]]>>))

(* int(x) of a captured string raises ValueError unless x is all digits *)
IsInt(x) == x # <<>> /\ \A i \in 1..Len(x) : x[i] \in Digit

_parsePeakWindRemark(s, d) ==
  IF ~IsInt(d["speed"][1]) THEN Fail(s, "ValueError")
  ELSE IF ~Truthy(d["hour"]) /\ s._hour = None THEN Fail(s, "AttributeError")
  ELSE
    LET peak_hour == IF Truthy(d["hour"]) THEN ToInt(d["hour"][1])
                     ELSE s._hour[1]
    IN  Done(Phrase(s, "peak wind %dkt from %d degrees at %d:%02d",
                    <<ToInt(d["speed"][1]), ToInt(d["dir"][1]), peak_hour,
                      ToInt(d["min"][1])>>))

_parseWindShiftRemark(s, d) ==
  IF d["hour"] = None THEN Fail(s, "TypeError")
  ELSE
    Done(Phrase(s, IF Truthy(d["front"]) THEN "wind shift at %d:%02d (front)"
                   ELSE "wind shift at %d:%02d",
                <<ToInt(d["hour"][1]), ToInt(d["min"][1])>>))

LIGHTNING_FREQUENCY ==
  [c \in {<<"O","C","N","L">>, <<"F","R","Q">>, <<"C","O","N","S">>} |->
     CASE c = <<"O","C","N","L">> -> "occasional" [] c = <<"F","R","Q">> -> "frequent"
       [] c = <<"C","O","N","S">> -> "constant"]

LIGHTNING_TYPE ==
  [c \in {<<"I","C">>, <<"C","C">>, <<"C","G">>, <<"C","A">>} |->
     CASE c = <<"I","C">> -> "intracloud" [] c = <<"C","C">> -> "cloud-to-cloud"
       [] c = <<"C","G">> -> "cloud-to-ground" [] c = <<"C","A">> -> "cloud-to-air"]

(* the pairs of letters of a lightning-type string, in order *)
RECURSIVE Pairs(_)
Pairs(g) ==
  IF g = <<>> THEN <<>>
  ELSE <<SubSeq(g, 1, IF Len(g) >= 2 THEN 2 ELSE 1)>> \o Pairs(Drop(g, 2))

_parseLightningRemark(s, d) ==
  LET freq == IF Truthy(d["freq"]) THEN <<LIGHTNING_FREQUENCY[d["freq"][1]]>>
              ELSE <<>>
      ps == IF Truthy(d["type"]) THEN Pairs(d["type"][1]) ELSE <<>>
      loc == IF Truthy(d["loc"]) THEN <<d["loc"][1]>> ELSE <<>>
  IN  IF \E i \in 1..Len(ps) : ps[i] \notin DOMAIN LIGHTNING_TYPE
      THEN Fail(s, "KeyError")
      ELSE Done(Phrase(s, "lightning",
                       <<freq, [i \in 1..Len(ps) |-> LIGHTNING_TYPE[ps[i]]],
                         loc>>))

_parseTSLocRemark(s, d) ==
  Done(Phrase(s, "thunderstorm",
              <<IF Truthy(d["loc"]) THEN <<d["loc"][1]>> ELSE <<>>,
                IF Truthy(d["dir"]) THEN <<d["dir"][1]>> ELSE <<>> >>))

_parseAutoRemark(s, d) ==
  IF d["type"][1] = <<"1">> THEN Done(Phrase(s, "Automated station", <<>>))
  ELSE IF d["type"][1] = <<"2">>
  THEN Done(Phrase(s, "Automated station (type 2)", <<>>))
  ELSE Done(s)

_unparsedRemark(s, d) ==
  Done([s EXCEPT !._unparsed = Append(@, d["group"][1])])

-----------------------------------------------------------------------------
(* The lists of parsers *)

parsers ==
  << "_parseType", "_parseStation", "_parseTime", "_parseModifier",
     "_parseWind", "_parseVisibility", "_parseRunway", "_parseWeather",
     "_parseSky", "_parseTemp", "_parsePressure", "_parseRecent",
     "_parseWindShear", "_parseColor", "_parseTrend" >>

remark_parsers ==
  << [pattern |-> AUTO_RE,         parser |-> "_parseAutoRemark"],
     [pattern |-> SEALVL_PRESS_RE, parser |-> "_parseSealvlPressRemark"],
     [pattern |-> PEAK_WIND_RE,    parser |-> "_parsePeakWindRemark"],
     [pattern |-> WIND_SHIFT_RE,   parser |-> "_parseWindShiftRemark"],
     [pattern |-> LIGHTNING_RE,    parser |-> "_parseLightningRemark"],
     [pattern |-> TS_LOC_RE,       parser |-> "_parseTSLocRemark"],
     [pattern |-> TEMP_1HR_RE,     parser |-> "_parseTemp1hrRemark"],
     [pattern |-> PRECIP_1HR_RE,   parser |-> "_parsePrecip1hrRemark"],
     [pattern |-> PRECIP_24HR_RE,  parser |-> "_parsePrecip24hrRemark"],
     [pattern |-> PRESS_3HR_RE,    parser |-> "_parsePress3hrRemark"],
     [pattern |-> TEMP_6HR_RE,     parser |-> "_parseTemp6hrRemark"],
     [pattern |-> TEMP_24HR_RE,    parser |-> "_parseTemp24hrRemark"],
     [pattern |-> UNPARSED_RE,     parser |-> "_unparsedRemark"] >>

(* NextParser going back to the first parser after a match *)
NextParser_Restart(i, match) == IF Truthy(match) THEN 1 ELSE i + 1

(* "while match": the same parser again after a match, the next one after  *)
(* a miss (a match is true unless it is the empty string).                 *)
NextParser(i, match) == IF Truthy(match) THEN i ELSE i + 1

(* "for pattern, parser in metar.remark_parsers: m = pattern.match(code);  *)
(* if m: ... break": the index of the pattern whose handler runs, 0 when   *)
(* the scan ends without a match.                                          *)
RECURSIVE ScanFrom(_, _)
ScanFrom(k, c) ==
  IF k > Len(remark_parsers) THEN 0
  ELSE IF Match(remark_parsers[k].pattern, c) # None THEN k
  ELSE ScanFrom(k + 1, c)

(* the scan without its break: the last pattern that matches *)
FirstMatch_NoBreak(c) ==
  LET ks == { k \in 1..Len(remark_parsers) :
                Match(remark_parsers[k].pattern, c) # None }
  IN  IF ks = {} THEN 0 ELSE CHOOSE k \in ks : \A j \in ks : j <= k

FirstMatch(c) == ScanFrom(1, c)

-----------------------------------------------------------------------------
(* The methods that put a decoded report into words.  Each returns a text  *)
(* or raises.  A text is kept as the sequence of its parts: a string, a    *)
(* format followed by its arguments, or a value of the report given to     *)
(* string() or compass() of wxdatatypes, which return a string.  The text  *)
(* of sky_conditions is the list of the phrases of the layers, before the  *)
(* last string.join.                                                       *)

(* The tables of the translations *)

SKY_COVER ==
  [c \in {<<"S","K","C">>, <<"C","L","R">>, <<"N","S","C">>, <<"F","E","W">>, <<"S","C","T">>, <<"B","K","N">>, <<"O","V","C">>, <<"V","V">>} |->
     CASE c = <<"S","K","C">> -> "clear"
       [] c = <<"C","L","R">> -> "clear"
       [] c = <<"N","S","C">> -> "clear"
       [] c = <<"F","E","W">> -> "a few "
       [] c = <<"S","C","T">> -> "scattered "
       [] c = <<"B","K","N">> -> "broken "
       [] c = <<"O","V","C">> -> "overcast"
       [] c = <<"V","V">> -> "indefinite ceiling"]

CLOUD_TYPE ==
  [c \in {<<"T","C","U">>, <<"C","U">>, <<"C","B">>, <<"S","C">>, <<"C","B","M","A","M">>, <<"A","C","C">>, <<"S","C","S","L">>, <<"C","C","S","L">>, <<"A","C","S","L">>} |->
     CASE c = <<"T","C","U">> -> "towering cumulus"
       [] c = <<"C","U">> -> "cumulus"
       [] c = <<"C","B">> -> "cumulonimbus"
       [] c = <<"S","C">> -> "stratocumulus"
       [] c = <<"C","B","M","A","M">> -> "cumulonimbus mammatus"
       [] c = <<"A","C","C">> -> "altocumulus castellanus"
       [] c = <<"S","C","S","L">> -> "standing lenticular stratocumulus"
       [] c = <<"C","C","S","L">> -> "standing lenticular cirrocumulus"
       [] c = <<"A","C","S","L">> -> "standing lenticular altocumulus"]

WEATHER_INT ==
  [c \in {<<"-">>, <<"+">>, <<"-","V","C">>, <<"+","V","C">>, <<"V","C">>} |->
     CASE c = <<"-">> -> "light"
       [] c = <<"+">> -> "heavy"
       [] c = <<"-","V","C">> -> "nearby light"
       [] c = <<"+","V","C">> -> "nearby heavy"
       [] c = <<"V","C">> -> "nearby"]

WEATHER_DESC ==
  [c \in {<<"M","I">>, <<"P","R">>, <<"B","C">>, <<"D","R">>, <<"B","L">>, <<"S","H">>, <<"T","S">>, <<"F","Z">>} |->
     CASE c = <<"M","I">> -> "shallow"
       [] c = <<"P","R">> -> "partial"
       [] c = <<"B","C">> -> "patches of"
       [] c = <<"D","R">> -> "low drifting"
       [] c = <<"B","L">> -> "blowing"
       [] c = <<"S","H">> -> "showers"
       [] c = <<"T","S">> -> "thunderstorm"
       [] c = <<"F","Z">> -> "freezing"]

WEATHER_PREC ==
  [c \in {<<"D","Z">>, <<"R","A">>, <<"S","N">>, <<"S","G">>, <<"I","C">>, <<"P","L">>, <<"G","R">>, <<"G","S">>, <<"U","P">>, <<"/","/">>} |->
     CASE c = <<"D","Z">> -> "drizzle"
       [] c = <<"R","A">> -> "rain"
       [] c = <<"S","N">> -> "snow"
       [] c = <<"S","G">> -> "snow grains"
       [] c = <<"I","C">> -> "ice crystals"
       [] c = <<"P","L">> -> "ice pellets"
       [] c = <<"G","R">> -> "hail"
       [] c = <<"G","S">> -> "snow pellets"
       [] c = <<"U","P">> -> "unknown precipitation"
       [] c = <<"/","/">> -> ""]

WEATHER_OBSC ==
  [c \in {<<"B","R">>, <<"F","G">>, <<"F","U">>, <<"V","A">>, <<"D","U">>, <<"S","A">>, <<"H","Z">>, <<"P","Y">>} |->
     CASE c = <<"B","R">> -> "mist"
       [] c = <<"F","G">> -> "fog"
       [] c = <<"F","U">> -> "smoke"
       [] c = <<"V","A">> -> "volcanic ash"
       [] c = <<"D","U">> -> "dust"
       [] c = <<"S","A">> -> "sand"
       [] c = <<"H","Z">> -> "haze"
       [] c = <<"P","Y">> -> "spray"]

WEATHER_OTHER ==
  [c \in {<<"P","O">>, <<"S","Q">>, <<"F","C">>, <<"S","S">>, <<"D","S">>} |->
     CASE c = <<"P","O">> -> "sand whirls"
       [] c = <<"S","Q">> -> "squalls"
       [] c = <<"F","C">> -> "funnel cloud"
       [] c = <<"S","S">> -> "sandstorm"
       [] c = <<"D","S">> -> "dust storm"]

WEATHER_SPECIAL ==
  [c \in {<<"+","F","C">>} |->
     CASE c = <<"+","F","C">> -> "tornado"]

REPORT_TYPE ==
  [c \in {<<"M","E","T","A","R">>, <<"S","P","E","C","I">>, <<"A","U","T","O">>, <<"R","T","D">>, <<"C","C","A">>, <<"C","O","R">>} |->
     CASE c = <<"M","E","T","A","R">> -> "routine report"
       [] c = <<"S","P","E","C","I">> -> "special report"
       [] c = <<"A","U","T","O">> -> "automatic"
       [] c = <<"R","T","D">> -> "RTD"
       [] c = <<"C","C","A">> -> "CCA"
       [] c = <<"C","O","R">> -> "manually corrected"]

Returns(text) == [text |-> text, exc |-> None]

Throws(e) == [text |-> <<>>, exc |-> Some(e)]

(* report_type: with no type, text is set to "unknown report type" and     *)
(* then the else branch evaluates self.type+" report"                      *)
report_type(s) ==
  IF s.type = None THEN Throws("TypeError")
  ELSE
    LET text == IF s.type[1] \in DOMAIN REPORT_TYPE
                THEN <<REPORT_TYPE[s.type[1]]>>
                ELSE <<s.type[1], " report">>
        cycle == IF s.cycle # None /\ s.cycle[1] # 0
                 THEN <<", cycle %d", s.cycle[1]>> ELSE <<>>
        mod == IF ~Truthy(s.mod) THEN <<>>
               ELSE IF s.mod[1] \in DOMAIN REPORT_TYPE
               THEN <<" (%s)", REPORT_TYPE[s.mod[1]]>>
               ELSE <<" (%s)", s.mod[1]>>
    IN  Returns(text \o cycle \o mod)

visibility(s) ==
  IF s.vis = None THEN Returns(<<"missing">>)
  ELSE
    LET text == IF s.vis_dir # None
                THEN <<"%s to %s", s.vis[1], s.vis_dir[1]>>
                ELSE <<s.vis[1]>>
    IN  IF s.max_vis = None THEN Returns(text)
        ELSE IF s.max_vis_dir # None
        THEN Returns(text \o <<"; %s", s.max_vis[1]>>)
        ELSE Throws("AttributeError")

(* string.join(words, sep) of strings *)
RECURSIVE JoinStr(_, _)
JoinStr(ws, sep) ==
  IF ws = <<>> THEN ""
  ELSE IF Len(ws) = 1 THEN ws[1]
  ELSE ws[1] \o sep \o JoinStr(Tail(ws), sep)

(* string.join(words) of codes *)
RECURSIVE JoinWords(_)
JoinWords(ws) ==
  IF ws = <<>> THEN <<>>
  ELSE IF Len(ws) = 1 THEN ws[1]
  ELSE ws[1] \o <<" ">> \o JoinWords(Tail(ws))

(* One turn of the loop of present_weather for the tuple w.  precip_text   *)
(* is a local variable of the method: None until a turn assigns it, and    *)
(* kept from turn to turn.                                                 *)
WeatherPhrase(w, precip_text) ==
  LET intensity == w[1]
      description == w[2]
      precipitation == w[3]
      obscuration == w[4]
      other == w[5]
      n == IF Truthy(precipitation) THEN Len(precipitation[1]) ELSE 0
      p == IF Truthy(precipitation) THEN precipitation[1] ELSE <<>>
      precip ==
        IF n = 2 THEN Some(WEATHER_PREC[p])
        ELSE IF n = 4
        THEN Some(WEATHER_PREC[SubSeq(p, 1, 2)] \o " and "
                    \o WEATHER_PREC[SubSeq(p, 3, 4)])
        ELSE IF n = 6
        THEN Some(WEATHER_PREC[SubSeq(p, 1, 2)] \o ", "
                    \o WEATHER_PREC[SubSeq(p, 3, 4)] \o " and "
                    \o WEATHER_PREC[SubSeq(p, 5, 6)])
        ELSE precip_text
      code_parts ==
        (IF Truthy(intensity) THEN <<intensity[1]>> ELSE <<>>)
          \o (IF Truthy(description) THEN <<description[1]>> ELSE <<>>)
          \o (IF Truthy(precipitation) THEN <<p>> ELSE <<>>)
          \o (IF Truthy(obscuration) THEN <<obscuration[1]>> ELSE <<>>)
          \o (IF Truthy(other) THEN <<other[1]>> ELSE <<>>)
      wcode == JoinWords(code_parts)
  IN  IF Truthy(intensity) /\ intensity[1] \notin DOMAIN WEATHER_INT
      THEN [exc |-> Some("KeyError"), phrase |-> <<>>, precip_text |-> precip_text]
      ELSE IF Truthy(precipitation) /\ precip = None
      THEN [exc |-> Some("UnboundLocalError"), phrase |-> <<>>,
            precip_text |-> precip_text]
      ELSE IF Truthy(other) /\ other[1] \notin DOMAIN WEATHER_OTHER
      THEN [exc |-> Some("KeyError"), phrase |-> <<>>, precip_text |-> precip]
      ELSE
        LET text_parts ==
              (IF Truthy(intensity) THEN <<WEATHER_INT[intensity[1]]>> ELSE <<>>)
                \o (IF Truthy(description)
                       /\ (description[1] # <<"S","H">> \/ ~Truthy(precipitation))
                    THEN <<WEATHER_DESC[description[1]]>> ELSE <<>>)
                \o (IF Truthy(precipitation)
                    THEN (IF description = Some(<<"T","S">>) THEN <<"with">> ELSE <<>>)
                           \o <<precip[1]>>
                           \o (IF description = Some(<<"S","H">>)
                               THEN <<WEATHER_DESC[description[1]]>> ELSE <<>>)
                    ELSE <<>>)
                \o (IF Truthy(obscuration)
                    THEN <<WEATHER_OBSC[obscuration[1]]>> ELSE <<>>)
                \o (IF Truthy(other) THEN <<WEATHER_OTHER[other[1]]>> ELSE <<>>)
        IN  [exc |-> None,
             phrase |-> IF wcode \in DOMAIN WEATHER_SPECIAL
                        THEN WEATHER_SPECIAL[wcode]
                        ELSE JoinStr(text_parts, " "),
             precip_text |-> precip]

RECURSIVE WeatherLoop(_, _, _)
WeatherLoop(ws, precip_text, text_list) ==
  IF ws = <<>> THEN Returns(<<JoinStr(text_list, "; ")>>)
  ELSE LET r == WeatherPhrase(Head(ws), precip_text)
       IN  IF r.exc # None THEN Throws(r.exc[1])
           ELSE WeatherLoop(Tail(ws), r.precip_text, Append(text_list, r.phrase))

present_weather(s) == WeatherLoop(s.weather, None, <<>>)

(* One turn of the loop of sky_conditions for the tuple l: the phrase it   *)
(* appends to text_list, or the exception.  The branch of VV names         *)
(* text.list, and there is no text.                                        *)
SkyPhrase(l) ==
  LET cover == l[1]
      height == l[2]
      cloud == l[3]
  IN  IF cover = <<"S","K","C">> \/ cover = <<"C","L","R">>
      THEN [exc |-> None, phrase |-> <<SKY_COVER[cover]>>]
      ELSE IF Truthy(cloud) /\ cloud[1] \notin DOMAIN CLOUD_TYPE
      THEN [exc |-> Some("KeyError"), phrase |-> <<>>]
      ELSE
        LET what == IF Truthy(cloud) THEN CLOUD_TYPE[cloud[1]]
                    ELSE IF cover # <<"O","V","C">> THEN "clouds" ELSE ""
        IN  IF cover = <<"V","V">>
            THEN [exc |-> Some("NameError"), phrase |-> <<>>]
            ELSE IF height = None
            THEN [exc |-> Some("AttributeError"), phrase |-> <<>>]
            ELSE [exc |-> None,
                  phrase |-> <<"%s%s at %s", SKY_COVER[cover] \o what,
                               height[1]>>]

RECURSIVE SkyLoop(_, _)
SkyLoop(ls, text_list) ==
  IF ls = <<>> THEN Returns(text_list)
  ELSE LET r == SkyPhrase(Head(ls))
       IN  IF r.exc # None THEN Throws(r.exc[1])
           ELSE SkyLoop(Tail(ls), Append(text_list, r.phrase))

sky_conditions(s) == SkyLoop(s.sky, <<>>)

-----------------------------------------------------------------------------
(* The inputs: reports made of at most MaxBody body groups, and reports    *)
(* made of a short body, the remarks marker and at most MaxRemarks remark  *)
(* groups, and a few whole reports.  The empty group stands for a doubled, *)
(* leading or trailing space.                                              *)

MaxBody == 2

MaxRemarks == 2

BodyGroups ==
  { <<>>, <<"M","E","T","A","R">>, <<"K","J","F","K">>, <<"1","6","1","8","4","4","Z">>, <<"2","9","2","3","4","5","Z">>, <<"A","U","T","O">>, <<"1","8","0","1","0","K","T">>,
    <<"V","R","B","P","9","9","G","1","5","K","T">>, <<"1","0","S","M">>, <<"4","0","0","0","N","E">>, <<"9","9","9","9">>, <<"R","0","4","/","2","0","0","0","F","T">>, <<"-","R","A">>,
    <<"F","E","W","2","5","0">>, <<"V","V","0","0","2">>, <<"2","4","/","1","8">>, <<"M","0","5","/">>, <<"A","3","0","0","0">>, <<"R","E","R","A">>, <<"R","W","Y","0","4">>,
    <<"B","L","U">>, <<"N","O","S","I","G">>, <<"T","E","M","P","O">>, <<"R","M","K">>, <<"R","M","K","S">>, <<"X","Y","Z">>, <<"R","A","S","N","P","L","G","R">>, <<"N","S","W">>,
    <<"B","K","N","0","3","0","C","B">>, <<"N","S","C">> }

RemarkGroups ==
  { <<"A","O","2">>, <<"A","O","3">>, <<"S","L","P","1","3","2">>, <<"P","K"," ","W","N","D"," ","2","8","0","3","0","/","2","3","4","0">>, <<"P","K"," ","W","N","D"," ","2","8","0","P","3","0","/","4","0">>,
    <<"W","S","H","F","T"," ","2","3","4","0">>, <<"W","S","H","F","T"," ","3","0">>, <<"L","T","G","I","C">>, <<"T","S"," ","O","H","D"," ","M","O","V"," ","N">>, <<"T","0","0","6","4","0","0","3","6">>,
    <<"T","1","0","1","2">>, <<"P","0","0","1","0">>, <<"6","0","0","1","0">>, <<"5","2","0","1","2">>, <<"1","0","0","6","6">>, <<"4","0","1","0","0","1","0","1","5">>,
    <<"X","Y","Z">> }

Preambles == { <<>>, <<<<"1","6","1","8","5","1","Z">>>>, <<<<"2","4","/","1","8">>>> }

(* whole reports *)
Reports ==
  { <<<<"M","E","T","A","R">>, <<"K","J","F","K">>, <<"1","6","1","8","5","1","Z">>, <<"1","8","0","1","0","K","T">>, <<"1","0","S","M">>, <<"F","E","W","2","5","0">>, <<"2","4","/","1","8">>,
      <<"A","3","0","0","0">>, <<"R","M","K">>, <<"A","O","2">>, <<"S","L","P","1","3","2">>, <<"T","0","0","6","4","0","0","3","6">>>>,
    <<<<"4","0","0","0","N","E">>, <<"9","9","9","9">>, <<"1","0","S","M">>>>,
    <<<<"T","E","M","P","O">>, <<"4","0","0","0">>, <<"-","R","A">>, <<"R","M","K">>, <<"A","O","2">>>>,
    <<<<"2","4","/","1","8">>, <<"A","3","0","0","0">>, <<"X","Y","Z">>, <<"R","M","K">>, <<"T","1","0","1","2","1","0","1","2">>>>,
    <<<<"1","0","S","M">>, <<"F","C","S","T">>, <<"X","Y","Z">>, <<"R","M","K">>, <<"S","L","P","1","3","2">>>>,
    <<<<"B","E","C","M","G">>, <<"1","8","0","1","0","K","T">>, <<"R","M","K">>, <<"A","O","2">>>>,
    <<<<"+","T","S","R","A","G","R">>, <<"S","H","R","A","S","N">>, <<"V","C","F","G">>, <<"C","L","R">>, <<"F","E","W","0","1","0","Z","Z">>>> }

Contexts == { [year |-> 2004, month |-> 2], [year |-> 2005, month |-> 2] }

SeqsUpTo(S, n) == UNION { [1..k -> S] : k \in 0..n }

Inputs ==
  SeqsUpTo(BodyGroups, MaxBody)
    \cup { p \o <<<<"R","M","K">>>> \o r :
             p \in Preambles, r \in SeqsUpTo(RemarkGroups, MaxRemarks) }
    \cup Reports

(* string.join(groups, " ") *)
RECURSIVE Join(_)
Join(gs) ==
  IF gs = <<>> THEN <<>>
  ELSE IF Len(gs) = 1 THEN gs[1]
  ELSE gs[1] \o <<" ">> \o Join(Tail(gs))

-----------------------------------------------------------------------------
(* The decoder: metar.__init__ *)

Fields ==
  { "type", "station_id", "mod", "time", "cycle", "wind_dir", "wind_speed",
    "wind_gust", "wind_dir_from", "wind_dir_to", "vis", "vis_dir", "max_vis",
    "max_vis_dir", "temp", "dewpt", "press", "runway", "weather", "recent",
    "sky", "windshear" }

(* hist records what happened, for the properties: the texts removed from  *)
(* the code, each with the parser that removed it; how many times the body *)
(* parsers assigned each attribute; whether _parseRemarks was called; and  *)
(* the text and the handler of the last iteration of the remarks loop.     *)
InitHist ==
  [ consumed |-> <<>>, assigns |-> [f \in Fields |-> 0], called |-> FALSE,
    last |-> None ]

Init ==
  /\ \E gs \in Inputs : raw = Join(gs)
  /\ ctx \in Contexts
  /\ code = raw \o <<" ">>
  /\ pc = "body"
  /\ idx = 1
  /\ self = InitSelf
  /\ err = None
  /\ hist = InitHist
  /\ out = None

Removed(c, c2) == SubSeq(c, 1, Len(c) - Len(c2))

(* One call "code, match = parser(self,code)" of the loop over the         *)
(* parsers, with the "except Exception, err: ... raise err" around it.     *)
BodyStep(r, next) ==
  IF r.exc # None
  THEN /\ pc' = "failed"
       /\ err' = Some([type |-> r.exc[1], text |-> code])
       /\ self' = r.self
       /\ UNCHANGED <<raw, code, idx, ctx, hist, out>>
  ELSE /\ self' = r.self
       /\ code' = r.code
       /\ idx' = NextParser(idx, r.match)
       /\ pc' = next
       /\ hist' = [hist EXCEPT
                     !.consumed = IF r.match # None
                                  THEN Append(@, [by |-> parsers[idx],
                                                  text |-> Removed(code, r.code)])
                                  ELSE @,
                     !.assigns = [f \in Fields |->
                                    IF f \in r.set THEN @[f] + 1 ELSE @[f]]]
       /\ UNCHANGED <<raw, ctx, err, out>>

At(name) == pc = "body" /\ idx <= Len(parsers) /\ parsers[idx] = name

ParseType == At("_parseType") /\ BodyStep(_parseType(self, code), "body")

ParseStation == At("_parseStation") /\ BodyStep(_parseStation(self, code), "body")

ParseTime == At("_parseTime") /\ BodyStep(_parseTime(self, code, ctx), "body")

ParseModifier == At("_parseModifier") /\ BodyStep(_parseModifier(self, code), "body")

ParseWind == At("_parseWind") /\ BodyStep(_parseWind(self, code), "body")

ParseVisibility ==
  At("_parseVisibility") /\ BodyStep(_parseVisibility(self, code), "body")

ParseRunway == At("_parseRunway") /\ BodyStep(_parseRunway(self, code), "body")

ParseWeather == At("_parseWeather") /\ BodyStep(_parseWeather(self, code), "body")

ParseSky == At("_parseSky") /\ BodyStep(_parseSky(self, code), "body")

ParseTemp == At("_parseTemp") /\ BodyStep(_parseTemp(self, code), "body")

ParsePressure == At("_parsePressure") /\ BodyStep(_parsePressure(self, code), "body")

ParseRecent == At("_parseRecent") /\ BodyStep(_parseRecent(self, code), "body")

ParseWindShear ==
  At("_parseWindShear") /\ BodyStep(_parseWindShear(self, code), "body")

ParseColor == At("_parseColor") /\ BodyStep(_parseColor(self, code), "body")

(* _parseTrend: after a trend other than NOSIG the loop that discards the  *)
(* groups of the forecast runs before the parser returns.                  *)
ParseTrend ==
  /\ At("_parseTrend")
  /\ LET r == _parseTrend(self, code)
     IN  BodyStep(r, IF r.match # None /\ r.match # Some(<<"N","O","S","I","G">>)
                     THEN "trend" ELSE "body")

(* One test of "while code and not code.startswith('RMK')" and, when it    *)
(* holds, one "(group, code) = code.split(None,1)".                        *)
TrendLoop ==
  /\ pc = "trend"
  /\ IF code # <<>> /\ ~StartsWith(code, <<"R","M","K">>)
     THEN LET rest == SplitRest(code)
          IN  /\ code' = rest
              /\ pc' = IF rest = <<>> THEN "body" ELSE "trend"
              /\ hist' = [hist EXCEPT
                            !.consumed = Append(@, [by |-> "_parseTrend",
                                                    text |-> Removed(code, rest)])]
     ELSE /\ pc' = "body"
          /\ UNCHANGED <<code, hist>>
  /\ UNCHANGED <<raw, idx, self, ctx, err, out>>

(* Unparsed with the test of the pressure turned round, and with the       *)
(* temperature tested in place of the pressure                             *)
Unparsed_PressureRequired(s, c) ==
  c # <<>> /\ ~StartsWith(c, <<"R","M","K">>) /\ s.press # None

Unparsed_TemperatureTested(s, c) ==
  c # <<>> /\ ~(StartsWith(c, <<"R","M","K">>) \/ s.temp # None)

(* "if code and not (code.startswith("RMK") or self.press): raise ..." *)
Unparsed(s, c) == c # <<>> /\ ~(StartsWith(c, <<"R","M","K">>) \/ s.press # None)

CheckUnparsed ==
  /\ pc = "body" /\ idx = Len(parsers) + 1
  /\ IF Unparsed(self, code)
     THEN /\ pc' = "failed"
          /\ err' = Some([type |-> "ParserError", text |-> code])
     ELSE /\ pc' = "parseRemarks"
          /\ UNCHANGED err
  /\ UNCHANGED <<raw, code, idx, self, ctx, hist, out>>

(* The call of _parseRemarks and its first lines *)
RemarksStart(c) == StartsWith(c, <<"R","M","K"," ">>)

ParseRemarks ==
  /\ pc = "parseRemarks"
  /\ IF ~RemarksStart(code)
     THEN /\ pc' = "done"
          /\ code' = code
          /\ hist' = [hist EXCEPT !.called = TRUE]
     ELSE /\ pc' = "remarks"
          /\ code' = LStrip(Drop(code, 4))
          /\ hist' = [hist EXCEPT
                        !.called = TRUE,
                        !.consumed = Append(@, [by |-> "_parseRemarks",
                                                text |-> Removed(code, code')])]
  /\ UNCHANGED <<raw, idx, self, ctx, err, out>>

(* One iteration of "while code:": the scan of remark_parsers, the handler *)
(* of the first pattern that matches, and the removal of the match.  k is  *)
(* the place of the pattern and h what its handler does with the          *)
(* groupdict of the match.                                                 *)
Groups(k) == Match(remark_parsers[k].pattern, code)[1].d

RemarkStep(k, h) ==
  /\ code # <<>>
  /\ Match(remark_parsers[k].pattern, code) # None
  /\ FirstMatch(code) = k
  /\ LET m == Match(remark_parsers[k].pattern, code)[1]
         name == remark_parsers[k].parser
     IN  /\ self' = h.self
         /\ IF h.exc # None
            THEN /\ pc' = "failed"
                 /\ err' = Some([type |-> h.exc[1], text |-> code])
                 /\ code' = code
                 /\ hist' = [hist EXCEPT
                               !.last = Some([cursor |-> code, parser |-> name])]
            ELSE /\ code' = Sub(m, code)
                 /\ hist' = [hist EXCEPT
                               !.last = Some([cursor |-> code, parser |-> name]),
                               !.consumed = Append(@, [by |-> name,
                                                       text |-> m.text])]
                 /\ UNCHANGED <<pc, err>>
  /\ UNCHANGED <<raw, idx, ctx, out>>

(* the place of a handler in remark_parsers *)
Place(name) ==
  CHOOSE k \in 1..Len(remark_parsers) : remark_parsers[k].parser = name

AutoRemark ==
  /\ pc = "remarks"
  /\ LET k == Place("_parseAutoRemark")
     IN  RemarkStep(k, _parseAutoRemark(self, Groups(k)))

SealvlPressRemark ==
  /\ pc = "remarks"
  /\ LET k == Place("_parseSealvlPressRemark")
     IN  RemarkStep(k, _parseSealvlPressRemark(self, Groups(k)))

PeakWindRemark ==
  /\ pc = "remarks"
  /\ LET k == Place("_parsePeakWindRemark")
     IN  RemarkStep(k, _parsePeakWindRemark(self, Groups(k)))

WindShiftRemark ==
  /\ pc = "remarks"
  /\ LET k == Place("_parseWindShiftRemark")
     IN  RemarkStep(k, _parseWindShiftRemark(self, Groups(k)))

LightningRemark ==
  /\ pc = "remarks"
  /\ LET k == Place("_parseLightningRemark")
     IN  RemarkStep(k, _parseLightningRemark(self, Groups(k)))

TSLocRemark ==
  /\ pc = "remarks"
  /\ LET k == Place("_parseTSLocRemark")
     IN  RemarkStep(k, _parseTSLocRemark(self, Groups(k)))

Temp1hrRemark ==
  /\ pc = "remarks"
  /\ LET k == Place("_parseTemp1hrRemark")
     IN  RemarkStep(k, _parseTemp1hrRemark(self, Groups(k)))

Precip1hrRemark ==
  /\ pc = "remarks"
  /\ LET k == Place("_parsePrecip1hrRemark")
     IN  RemarkStep(k, _parsePrecip1hrRemark(self, Groups(k)))

Precip24hrRemark ==
  /\ pc = "remarks"
  /\ LET k == Place("_parsePrecip24hrRemark")
     IN  RemarkStep(k, _parsePrecip24hrRemark(self, Groups(k)))

Press3hrRemark ==
  /\ pc = "remarks"
  /\ LET k == Place("_parsePress3hrRemark")
     IN  RemarkStep(k, _parsePress3hrRemark(self, Groups(k)))

Temp6hrRemark ==
  /\ pc = "remarks"
  /\ LET k == Place("_parseTemp6hrRemark")
     IN  RemarkStep(k, _parseTemp6hrRemark(self, Groups(k)))

Temp24hrRemark ==
  /\ pc = "remarks"
  /\ LET k == Place("_parseTemp24hrRemark")
     IN  RemarkStep(k, _parseTemp24hrRemark(self, Groups(k)))

UnparsedRemark ==
  /\ pc = "remarks"
  /\ LET k == Place("_unparsedRemark")
     IN  RemarkStep(k, _unparsedRemark(self, Groups(k)))

(* "while code:" ends and _parseRemarks returns ("", "RMK") *)
RemarksReturn ==
  /\ pc = "remarks" /\ code = <<>>
  /\ pc' = "done"
  /\ UNCHANGED <<raw, code, idx, self, ctx, err, hist, out>>

(* A method of the report that decode returned is called: out is what it   *)
(* returns or raises.                                                      *)
Render(op, r) ==
  /\ pc = "done"
  /\ out' = Some([op |-> op, text |-> r.text, exc |-> r.exc])
  /\ UNCHANGED <<raw, code, pc, idx, self, ctx, err, hist>>

ReportType == LET r == report_type(self) IN Render("report_type", r)

Visibility == LET r == visibility(self) IN Render("visibility", r)

PresentWeather == LET r == present_weather(self) IN Render("present_weather", r)

SkyConditions == LET r == sky_conditions(self) IN Render("sky_conditions", r)

Next ==
  \/ ParseType \/ ParseStation \/ ParseTime \/ ParseModifier \/ ParseWind
  \/ ParseVisibility \/ ParseRunway \/ ParseWeather \/ ParseSky \/ ParseTemp
  \/ ParsePressure \/ ParseRecent \/ ParseWindShear \/ ParseColor
  \/ ParseTrend \/ TrendLoop \/ CheckUnparsed \/ ParseRemarks
  \/ AutoRemark \/ SealvlPressRemark \/ PeakWindRemark \/ WindShiftRemark
  \/ LightningRemark \/ TSLocRemark \/ Temp1hrRemark \/ Precip1hrRemark
  \/ Precip24hrRemark \/ Press3hrRemark \/ Temp6hrRemark \/ Temp24hrRemark
  \/ UnparsedRemark \/ RemarksReturn
  \/ ReportType \/ Visibility \/ PresentWeather \/ SkyConditions

Spec == Init /\ [][Next]_vars

-----------------------------------------------------------------------------
(* Properties *)

(* the whitespace-delimited tokens of s, and the concatenation of texts *)
RECURSIVE SplitFrom(_, _)
SplitFrom(s, cur) ==
  IF s = <<>> THEN (IF cur = <<>> THEN <<>> ELSE <<cur>>)
  ELSE IF s[1] \in WS
       THEN (IF cur = <<>> THEN <<>> ELSE <<cur>>) \o SplitFrom(Tail(s), <<>>)
       ELSE SplitFrom(Tail(s), Append(cur, s[1]))

Split(s) == SplitFrom(s, <<>>)

RECURSIVE Flatten(_)
Flatten(ss) == IF ss = <<>> THEN <<>> ELSE Head(ss) \o Flatten(Tail(ss))

Range(f) == { f[i] : i \in DOMAIN f }

Texts(es) == [i \in 1..Len(es) |-> es[i].text]

(* what the body parsers removed, and the text they left *)
BodyConsumed == SelectSeq(hist.consumed, LAMBDA e : e.by \in Range(parsers))

BodyLeft == Drop(raw \o <<" ">>, Len(Flatten(Texts(BodyConsumed))))

BodyOver == idx = Len(parsers) + 1 /\ pc # "body"

IsParserError(e, text) == e = Some([type |-> "ParserError", text |-> text])

C3_Order ==
  << "_parseType", "_parseStation", "_parseTime", "_parseModifier",
     "_parseWind", "_parseVisibility", "_parseRunway", "_parseWeather",
     "_parseSky", "_parseTemp", "_parsePressure", "_parseRecent",
     "_parseWindShear", "_parseColor", "_parseTrend" >>

C3_Pos(name) == CHOOSE k \in 1..Len(C3_Order) : C3_Order[k] = name

C3_InOrder ==
  \A i, j \in 1..Len(BodyConsumed) :
    i < j => C3_Pos(BodyConsumed[i].by) <= C3_Pos(BodyConsumed[j].by)

C3_Step ==
  pc \in {"body", "trend"} /\ pc' \in {"body", "trend"}
    => /\ idx' >= idx
       /\ pc = "body" =>
            /\ idx <= Len(C3_Order)
            /\ Len(BodyConsumed') > Len(BodyConsumed)
                 => idx' = idx /\ BodyConsumed'[Len(BodyConsumed')].by = C3_Order[idx]
            /\ Len(BodyConsumed') = Len(BodyConsumed)
                 => idx' = idx + 1 /\ code' = code

C3_RetryThenAdvance == [][C3_Step]_vars /\ []C3_InOrder

(* a group of the wind parser that stands after a visibility group is left *)
C3_Witness ==
  /\ raw = <<"1","0","S","M"," ","1","8","0","1","0","K","T">>
  /\ BodyOver
  /\ Len(BodyConsumed) = 1
  /\ BodyLeft = <<"1","8","0","1","0","K","T"," ">>

(* C4: in every iteration of the remarks loop the handler that runs is     *)
(* that of the first pattern of remark_parsers that matches the text at    *)
(* the cursor, so that a token goes to the unparsed list only when none of *)
(* the twelve patterns before the last matches there.                      *)
C4_First(c, name) ==
  \E k \in 1..Len(remark_parsers) :
    /\ remark_parsers[k].parser = name
    /\ Match(remark_parsers[k].pattern, c) # None
    /\ \A j \in 1..(k - 1) : Match(remark_parsers[j].pattern, c) = None

C4_FirstMatchingHandlerRuns ==
  /\ hist.last # None => C4_First(hist.last[1].cursor, hist.last[1].parser)
  /\ \A i \in 1..Len(hist.consumed) :
       hist.consumed[i].by \notin Range(parsers) \cup {"_parseRemarks"}
         => C4_First(hist.consumed[i].text, hist.consumed[i].by)

(* a sea-level pressure group before an automated-station group *)
C4_Witness ==
  /\ pc = "done"
  /\ raw = <<"R","M","K"," ","S","L","P","1","3","2"," ","A","O","2">>
  /\ Len(hist.consumed) = 3
  /\ hist.consumed[2].by = "_parseSealvlPressRemark"
  /\ hist.consumed[3].by = "_parseAutoRemark"
  /\ Len(self._remarks) = 2

RemarksEntered == \E i \in 1..Len(hist.consumed) : hist.consumed[i].by = "_parseRemarks"

Rank ==
  CASE pc \in {"body", "trend"} ->
         2 * Len(code) + 2 * (Len(parsers) + 1 - idx) + 4
           + (IF pc = "trend" THEN 1 ELSE 0)
    [] pc = "parseRemarks" -> 2 * Len(code) + 3
    [] pc = "remarks" -> 2 * Len(code) + 1
    [] OTHER -> 0

C6_Step ==
  /\ pc # "done" => Rank' < Rank
  /\ (pc = "body" /\ Len(hist'.consumed) > Len(hist.consumed))
       => Len(code') < Len(code)
  /\ (pc = "trend" /\ pc' = "trend") => Len(code') < Len(code)
  /\ (pc = "remarks" /\ pc' = "remarks") => Len(code') < Len(code)

(* a step of the decoder can be taken: no parser is left without a        *)
(* result, and the scan of the remarks loop finds a pattern               *)
C6_CanStep ==
  \/ pc = "body" /\ idx <= Len(parsers) + 1
  \/ pc \in {"trend", "parseRemarks"}
  \/ pc = "remarks" /\ (code = <<>> \/ FirstMatch(code) # 0)

C6_DecodeTerminates ==
  [][C6_Step]_vars /\ [](pc \in {"done", "failed"} \/ C6_CanStep)

(* a trend group and the group of the forecast that the loop discards *)
C6_Witness ==
  /\ pc = "done"
  /\ raw = <<"T","E","M","P","O"," ","X","Y","Z">>
  /\ Len(hist.consumed) = 2
  /\ hist.consumed[2] = [by |-> "_parseTrend", text |-> <<"X","Y","Z"," ">>]
  /\ code = <<>>

(* C7 as claimed: the body parsers assign each single-valued attribute at  *)
(* most once.                                                              *)
SingleValued ==
  { "type", "station_id", "time", "cycle", "mod", "wind_dir", "wind_speed",
    "wind_gust", "wind_dir_from", "wind_dir_to", "temp", "dewpt", "press" }

C7_AssignedAtMostOnce == \A f \in SingleValued : hist.assigns[f] <= 1

(* C8: the first match of the visibility parser sets vis and vis_dir (the  *)
(* direction when the group codes one); a later one sets max_vis, and      *)
(* max_vis_dir when it codes a direction, and leaves vis and vis_dir as    *)
(* they were.                                                              *)
VisGroups ==
  SelectSeq(hist.consumed, LAMBDA e : e.by = "_parseVisibility")

C8_Coded(e) == Match(VISIBILITY_RE, e.text)[1].d

C8_SecondMatchIsMaxVis ==
  LET v == VisGroups
      later == SelectSeq(SubSeq(v, 2, Len(v)),
                         LAMBDA e : VisDirection(C8_Coded(e)) # None)
  IN  /\ v = <<>> => self.vis = None /\ self.max_vis = None
      /\ v # <<>> =>
           /\ self.vis = Some(VisDistance(C8_Coded(v[1])))
           /\ self.vis_dir = VisDirection(C8_Coded(v[1]))
      /\ Len(v) = 1 => self.max_vis = None /\ self.max_vis_dir = None
      /\ Len(v) >= 2 =>
           /\ self.max_vis = Some(VisDistance(C8_Coded(v[Len(v)])))
           /\ self.max_vis_dir =
                IF later = <<>> THEN None
                ELSE VisDirection(C8_Coded(later[Len(later)]))

C8_Witness ==
  /\ Len(VisGroups) = 2
  /\ self.vis = Some(distance(<<"4","0","0","0">>, "M", None))
  /\ self.vis_dir = Some(direction(<<"N","E">>))
  /\ self.max_vis = Some(distance(<<"1","0","0","0","0">>, "M", Some(">")))
  /\ self.max_vis_dir = None

(* C9: when the remarks loop has decoded the remarks and they hold a group *)
(* T, sign, three digits (and maybe a sign and three digits more), the     *)
(* temperature of the report is that of the last such group, in tenths of  *)
(* a degree and negative when the sign is 1, whatever the body said; the   *)
(* dew point is that of the last such group that has one, and a group      *)
(* without one leaves the dew point as it was.                             *)
C9_IsHourly(t) ==
  /\ Len(t) \in {5, 9}
  /\ t[1] = "T"
  /\ t[2] \in {"0", "1"}
  /\ \A i \in 3..5 : t[i] \in Digit
  /\ Len(t) = 9 => t[6] \in {"0", "1"} /\ \A i \in 7..9 : t[i] \in Digit

C9_Tenths(sign, ds) ==
  (IF sign = "1" THEN -1 ELSE 1)
    * (100 * DigitVal(ds[1]) + 10 * DigitVal(ds[2]) + DigitVal(ds[3]))

(* the tokens after the first token RMK of the input *)
C9_Remarks ==
  LET toks == Split(raw)
      at == { i \in 1..Len(toks) : toks[i] = <<"R","M","K">> }
  IN  IF at = {} THEN <<>>
      ELSE SubSeq(toks, 1 + (CHOOSE i \in at : \A j \in at : i <= j), Len(toks))

C9_Hourly == SelectSeq(C9_Remarks, C9_IsHourly)

C9_WithDewpt == SelectSeq(C9_Hourly, LAMBDA t : Len(t) = 9)

C9_Final ==
  (pc = "done" /\ RemarksEntered /\ C9_Hourly # <<>>)
    => /\ LET t == C9_Hourly[Len(C9_Hourly)]
          IN  self.temp = Some(C9_Tenths(t[2], SubSeq(t, 3, 5)))
       /\ C9_WithDewpt # <<>> =>
            LET t == C9_WithDewpt[Len(C9_WithDewpt)]
            IN  self.dewpt = Some(C9_Tenths(t[6], SubSeq(t, 7, 9)))

C9_Step ==
  (pc = "remarks" /\ pc' = "remarks" /\ C9_IsHourly(Split(code)[1])
     /\ Len(Split(code)[1]) = 5)
    => self'.dewpt = self.dewpt

TimeGroups == SelectSeq(hist.consumed, LAMBDA e : e.by = "_parseTime")

C11_CycleInRange ==
  (pc = "done" /\ self.time # None) =>
    /\ self.cycle # None
    /\ self.cycle[1] \in 0..23

(* C12: after the trend parser matched TEMPO, BECMG or FCST, the text it   *)
(* hands on is empty or starts at the remarks marker, the decoding does    *)
(* not fail with an unparsed group, and the report is returned with the    *)
(* remarks after the marker decoded, nothing of the text being left.       *)
TrendMatched ==
  \E i \in 1..Len(hist.consumed) :
    /\ hist.consumed[i].by = "_parseTrend"
    /\ \/ StartsWith(hist.consumed[i].text, <<"T","E","M","P","O">>)
       \/ StartsWith(hist.consumed[i].text, <<"B","E","C","M","G">>)
       \/ StartsWith(hist.consumed[i].text, <<"F","C","S","T">>)

C12_TrendDiscardsUpToMarker ==
  TrendMatched =>
    /\ pc = "body" => code = <<>> \/ RemarksStart(code)
    /\ ~(pc = "failed" /\ err # None /\ err[1].type = "ParserError")
    /\ pc = "done" => code = <<>>

(* C13: every phenomenon stored in weather or recent has a precipitation   *)
(* code of length 0, 2, 4 or 6, so present_weather finds one of its cases  *)
(* for every phenomenon with precipitation and never reads precip_text     *)
(* before assigning it.                                                    *)
PrecLen(w) == IF w[3] = None THEN 0 ELSE Len(w[3][1])

C13_PrecipitationAtMostThreeTypes ==
  /\ \A i \in 1..Len(self.weather) : PrecLen(self.weather[i]) \in {0, 2, 4, 6}
  /\ \A i \in 1..Len(self.recent) : PrecLen(self.recent[i]) \in {0, 2, 4, 6}
  /\ (out # None /\ out[1].op = "present_weather")
       => out[1].exc # Some("UnboundLocalError")

(* C14: every code stored in the weather and the sky of a decoded report   *)
(* has an entry in the table in which the renderer looks it up:            *)
(* present_weather and sky_conditions never fail on a lookup.              *)
C14_TablesCoverTheGrammar ==
  (out # None /\ out[1].op \in {"present_weather", "sky_conditions"})
    => out[1].exc # Some("KeyError")

(* C15: sky_conditions returns one phrase for each layer of sky, in the    *)
(* order of the layers, and does not fail for any decoded layer, a layer   *)
(* of indefinite ceiling (VV) or a layer without a height included.        *)
C15_OnePhrasePerLayer ==
  (out # None /\ out[1].op = "sky_conditions"
     /\ \A i \in 1..Len(self.sky) :
          ~Truthy(self.sky[i][3]) \/ self.sky[i][3][1] \in DOMAIN CLOUD_TYPE)
    => /\ out[1].exc = None
       /\ Len(out[1].text) = Len(self.sky)
       /\ \A i \in 1..Len(self.sky) :
            LET phrase == out[1].text[i]
            IN  phrase[IF Len(phrase) = 1 THEN 1 ELSE 2]
                  \in { SKY_COVER[self.sky[i][1]] \o what :
                          what \in Range(CLOUD_TYPE) \cup {"clouds", ""} }

(* C16: the handler of every remark group accepted by one of the twelve    *)
(* specific patterns completes without failure, so the decoding never      *)
(* stops in an iteration of the remarks loop that one of them handled.     *)
C16_AcceptedRemarkHandlersComplete ==
  (hist.last # None /\ hist.last[1].parser # "_unparsedRemark")
    => pc # "failed"

(* C17: every group consumed by the remarks loop leaves a trace in the     *)
(* report: a phrase in the list of remarks, a token in the list of         *)
(* unparsed groups, or the temperature of an hourly temperature group.  So *)
(* the groups consumed by handlers other than that of the hourly           *)
(* temperature are never more than the phrases and tokens of the lists.    *)
RemarkHandlers == { remark_parsers[k].parser : k \in 1..Len(remark_parsers) }

TracedRemarks ==
  SelectSeq(hist.consumed,
            LAMBDA e : e.by \in RemarkHandlers \ {"_parseTemp1hrRemark"})

C17_ConsumedRemarkLeavesATrace ==
  /\ Len(TracedRemarks) <= Len(self._remarks) + Len(self._unparsed)
  /\ \A i \in 1..Len(hist.consumed) :
       hist.consumed[i].by = "_parseTemp1hrRemark" => self.temp # None

(* C18: visibility returns a phrase for every report that has a            *)
(* visibility; when a maximum visibility was decoded the phrase names its  *)
(* direction exactly when a direction was decoded with it, and the call    *)
(* does not fail when there is none.                                       *)
MaxVisFormat == out[1].text[IF self.vis_dir # None THEN 4 ELSE 2]

C18_VisibilityPhrase ==
  (out # None /\ out[1].op = "visibility" /\ self.vis # None)
    => /\ out[1].exc = None
       /\ self.max_vis # None
            => (MaxVisFormat = "; %s to %s" <=> self.max_vis_dir # None)

(* C19: report_type returns a description for every decoded report: a text *)
(* that starts with "unknown report type" when no type group was decoded,  *)
(* and with the phrase of the table for the decoded type otherwise.        *)
C19_ReportTypeDescribed ==
  (out # None /\ out[1].op = "report_type")
    => /\ out[1].exc = None
       /\ out[1].text[1] = IF self.type = None THEN "unknown report type"
                           ELSE REPORT_TYPE[self.type[1]]
====
